---- MODULE Spec2Model ----
(***************************************************************************)
(* Model of the session controller of wolf-inv.go: the bubbletea model,    *)
(* its Update function with the four mode handlers, the message timer, the *)
(* network commands and the poll tick.                                     *)
(*                                                                         *)
(* Strings that the code transforms (entry fields, table cells) are        *)
(* sequences of one-character strings; fixed message texts are tokens.     *)
(***************************************************************************)
EXTENDS Integers, Sequences, FiniteSets, TLC

(* ------------------------------- bounds -------------------------------- *)

\* longest value the text input may hold (the input itself has no limit)
MaxLen == 1

\* commands the runtime may be executing at once
MaxInflight == 1

\* keys the user presses in one session
MaxKeys == 3

\* keys the user presses in a session that is all about the wizard: four more,
\* so that a run through the four steps to the submission fits
WizardKeys == MaxKeys + 4

\* longest entry list of the lists that the projection is checked on
MaxRows == 2

(* ------------------------------ constants ------------------------------ *)

\* type AddingState, iota
InputName == 0

InputIP == 1

InputLocation == 2

InputStatus == 3

Confirm == 4

\* width to which updateTable and viewingView pad the status
StatusWidth == 12

(* ------------------------------- strings ------------------------------- *)

Min(a, b) == IF a < b THEN a ELSE b

Max(a, b) == IF a > b THEN a ELSE b

Online == <<"O", "n", "l", "i", "n", "e">>

Offline == <<"O", "f", "f", "l", "i", "n", "e">>

Maintenance == <<"M", "a", "i", "n", "t", "e", "n", "a", "n", "c", "e">>

\* main: items of the status list
items == <<Online, Offline, Maintenance>>

Repeat(c, n) == [i \in 1..n |-> c]

\* status + strings.Repeat(" ", 12-len(status)) when len(status) < 12
PadStatus(s) == IF Len(s) < StatusWidth THEN s \o Repeat(" ", StatusWidth - Len(s)) ELSE s

RECURSIVE TrimLeft(_)
TrimLeft(s) == IF s # <<>> /\ Head(s) = " " THEN TrimLeft(Tail(s)) ELSE s

RECURSIVE TrimRight(_)
TrimRight(s) ==
    IF s # <<>> /\ s[Len(s)] = " " THEN TrimRight(SubSeq(s, 1, Len(s) - 1)) ELSE s

\* strings.TrimSpace
TrimSpace(s) == TrimRight(TrimLeft(s))

(* ------------------------------- entries ------------------------------- *)

\* Server{}
EmptyServer == [Name |-> <<>>, IP |-> <<>>, Location |-> <<>>, Status |-> <<>>,
                LastReport |-> <<>>]

\* entries the remote service may hold
ServerA == [Name |-> <<"a">>, IP |-> <<"1">>, Location |-> <<"d">>, Status |-> Online,
            LastReport |-> <<"t">>]

ServerB == [Name |-> <<"b">>, IP |-> <<"2">>, Location |-> <<"d">>, Status |-> <<" ", "z">>,
            LastReport |-> <<>>]

\* bodies a 200 answer of GET /inventory may decode to
FetchLists == {<<>>, <<ServerB, ServerA>>}

\* texts of the errors the commands build
ErrTexts == {"API request failed"}

(* ------------------------------- messages ------------------------------ *)

Msg(type, key, servers, err) == [type |-> type, key |-> key, servers |-> servers, err |-> err]

KeyMsg(k) == Msg("KeyMsg", k, <<>>, "")

WindowSizeMsg == Msg("WindowSizeMsg", "", <<>>, "")

serverMsg(l) == Msg("serverMsg", "", l, "")

errMsg(e) == Msg("errMsg", "", <<>>, e)

fetchServersMsg == Msg("fetchServersMsg", "", <<>>, "")

clearMessage == Msg("clearMessage", "", <<>>, "")

\* keys the user has
Keys == {"ctrl+c", "q", "r", "a", "d", "e", "?", "esc", "enter", "y", "Y", "n", "N", "up",
         "down", " "}

\* keys that are runes: a focused text input inserts them
Runes == {"q", "r", "a", "d", "e", "?", "y", "Y", "n", "N", " "}

\* runes the user types into the text input
TypedRunes == {"y"}

(* ------------------------------- commands ------------------------------ *)

Cmd(kind, server, name) == [kind |-> kind, server |-> server, name |-> name]

Nil == Cmd("nil", EmptyServer, <<>>)

Quit == Cmd("quit", EmptyServer, <<>>)

Blink == Cmd("blink", EmptyServer, <<>>)

fetchServers == Cmd("fetchServers", EmptyServer, <<>>)

addOrEditServer(serverData) == Cmd("addOrEditServer", serverData, <<>>)

deleteServer(serverName) == Cmd("deleteServer", EmptyServer, serverName)

pollForUpdates == Cmd("pollForUpdates", EmptyServer, <<>>)

(* ------------------------------- message line -------------------------- *)

\* m.message: a fixed text and, for the one formatted text, its argument (the
\* time of day in "Inventory refreshed at" is left out)
Text(t, arg) == [text |-> t, arg |-> arg]

NoTimer == [status |-> "nil", forMsg |-> Text("", <<>>)]

(* ------------------------------- components ---------------------------- *)

\* SelectedRow with a slip: the first row instead of the one under the cursor
SelectedRow_First(t) == IF t.rows = <<>> THEN <<>> ELSE t.rows[1]

\* table.Model.SelectedRow
SelectedRow(t) ==
    IF t.cursor < 0 \/ t.cursor >= Len(t.rows) THEN <<>> ELSE t.rows[t.cursor + 1]

clamp(v, low, high) == Min(Max(v, low), high)

\* table.Model.Update: only a focused table moves its cursor
tableUpdate(t, msg) ==
    IF msg.type = "KeyMsg" /\ t.focus
    THEN CASE msg.key = "up" -> [t EXCEPT !.cursor = clamp(t.cursor - 1, 0, Len(t.rows) - 1)]
           [] msg.key = "down" -> [t EXCEPT !.cursor = clamp(t.cursor + 1, 0, Len(t.rows) - 1)]
           [] OTHER -> t
    ELSE t

\* textinput.Model.Update: a focused input inserts runes at its end
textInputUpdate(ti, msg) ==
    IF msg.type = "KeyMsg" /\ ti.focus
    THEN IF msg.key \in Runes THEN [ti EXCEPT !.value = ti.value \o <<msg.key>>] ELSE ti
    ELSE ti

\* list.Model.Update: index of the highlighted item
statusListUpdate(idx, msg) ==
    IF msg.type = "KeyMsg"
    THEN CASE msg.key = "up" -> Max(idx - 1, 0)
           [] msg.key = "down" -> Min(idx + 1, Len(items) - 1)
           [] OTHER -> idx
    ELSE idx

\* list.Model.Update: the command it returns (its key map binds q and ctrl+c to quit)
statusListCmd(msg) ==
    IF msg.type = "KeyMsg" /\ msg.key \in {"q", "ctrl+c"} THEN Quit ELSE Nil

(* ------------------------------- utilities ----------------------------- *)

Row(server) == <<server.Name, server.IP, server.Location, PadStatus(server.Status),
                 server.LastReport>>

\* table.Model.SetRows: later versions of the table (clamps) pull the cursor
\* back to the last row, earlier ones leave it where it is
SetRows(t, rows, clamps) ==
    [t EXCEPT !.rows = rows,
              !.cursor = IF clamps THEN Min(t.cursor, Len(rows) - 1) ELSE t.cursor]

\* model.updateTable
updateTable(m, clamps) ==
    [m EXCEPT !.table = SetRows(m.table, [i \in 1..Len(m.servers) |-> Row(m.servers[i])],
                                clamps)]

\* statusStyle with a slip: the status is compared without the whitespace at its ends
statusStyle_Trimmed(status) ==
    CASE TrimSpace(status) = Online -> "onlineStyle"
      [] TrimSpace(status) = Offline -> "offlineStyle"
      [] OTHER -> "otherStyle"

\* viewingView: the switch on server.Status that chooses statusStyle
statusStyle(status) ==
    CASE status = Online -> "onlineStyle"
      [] status = Offline -> "offlineStyle"
      [] OTHER -> "otherStyle"

\* viewingView: the style chosen for each entry, in the order in which the loop
\* takes the entries (serverIndex)
viewingView(m) == [i \in 1..Len(m.servers) |-> statusStyle(m.servers[i].Status)]

\* model.setTempMessage
setTempMessage(m, style, message) ==
    [m EXCEPT !.message = message,
              !.currentMsgStyle = style,
              !.messageTimer = [status |-> "armed", forMsg |-> message]]

(* ------------------------------- handlers ------------------------------ *)

Result(m, cmd) == [m |-> m, cmd |-> cmd]

\* updateViewing, case tea.KeyMsg
updateViewingKey(msg, m) ==
    LET selectedRow == SelectedRow(m.table)
        forwarded == Result([m EXCEPT !.table = tableUpdate(m.table, msg)], Nil)
    IN CASE msg.key \in {"ctrl+c", "q"} -> Result(m, Quit)
         [] msg.key = "r" ->
              Result([m EXCEPT !.loading = TRUE,
                               !.message = Text("Refreshing data...", <<>>),
                               !.currentMsgStyle = "messageStyle"],
                     fetchServers)
         [] msg.key = "a" ->
              Result([m EXCEPT !.state = "Adding",
                               !.table.focus = FALSE,
                               !.addingState = InputName,
                               !.currentServer = EmptyServer,
                               !.textInput = [value |-> <<>>, focus |-> TRUE],
                               !.message = Text("Adding new server (Step 1 of 4):", <<>>),
                               !.currentMsgStyle = "messageStyle"],
                     Blink)
         [] msg.key = "d" ->
              IF Len(m.servers) > 0 /\ Len(selectedRow) > 0
              THEN Result([m EXCEPT !.deleteTarget = selectedRow[1],
                                    !.state = "Deleting",
                                    !.message = Text("", <<>>)],
                          Nil)
              ELSE Result(m, Nil)
         [] msg.key = "e" ->
              IF Len(m.servers) > 0 /\ Len(selectedRow) > 0
              THEN Result([m EXCEPT !.state = "Editing",
                                    !.table.focus = FALSE,
                                    !.addingState = InputName,
                                    !.currentServer =
                                        [Name |-> selectedRow[1],
                                         IP |-> selectedRow[2],
                                         Location |-> selectedRow[3],
                                         Status |-> TrimSpace(selectedRow[4]),
                                         LastReport |-> selectedRow[5]],
                                    !.textInput = [value |-> selectedRow[1], focus |-> TRUE],
                                    !.message = Text("Editing server (Step 1 of 4):", <<>>),
                                    !.currentMsgStyle = "messageStyle"],
                          Blink)
              ELSE forwarded
         [] msg.key = "?" -> Result([m EXCEPT !.state = "Help"], Nil)
         [] OTHER -> forwarded

\* updateViewing
updateViewing(msg, m, clamps) ==
    CASE msg.type = "KeyMsg" -> updateViewingKey(msg, m)
      [] msg.type = "serverMsg" ->
           Result(setTempMessage(
                      updateTable([m EXCEPT !.loading = FALSE,
                                            !.err = "",
                                            !.servers = msg.servers],
                                  clamps),
                      "successStyle", Text("Inventory refreshed at", <<>>)),
                  Nil)
      [] msg.type = "errMsg" ->
           Result([m EXCEPT !.loading = FALSE,
                            !.err = msg.err,
                            !.message = Text(msg.err, <<>>),
                            !.currentMsgStyle = "cancelStyle"],
                  Nil)
      [] msg.type = "fetchServersMsg" -> Result(m, fetchServers)
      [] msg.type = "clearMessage" -> Result([m EXCEPT !.currentMsgStyle = "messageStyle"], Nil)
      [] OTHER -> Result(m, Nil)

\* commitText with a slip: the Name step goes on to the Location step
commitText_SkipsIP(m) ==
    CASE m.addingState = InputName ->
           [m EXCEPT !.currentServer.Name = m.textInput.value,
                     !.addingState = InputLocation,
                     !.textInput.value = m.currentServer.Location,
                     !.message = Text("Adding new server (Step 3 of 4):", <<>>)]
      [] m.addingState = InputIP ->
           [m EXCEPT !.currentServer.IP = m.textInput.value,
                     !.addingState = InputLocation,
                     !.textInput.value = m.currentServer.Location,
                     !.message = Text("Adding new server (Step 3 of 4):", <<>>)]
      [] m.addingState = InputLocation ->
           [m EXCEPT !.currentServer.Location = m.textInput.value,
                     !.addingState = InputStatus,
                     !.textInput.focus = FALSE,
                     !.message = Text("Adding new server (Step 4 of 4):", <<>>)]

\* updateAddingEditing: the inner switch of the text steps, after enter
commitText(m) ==
    CASE m.addingState = InputName ->
           [m EXCEPT !.currentServer.Name = m.textInput.value,
                     !.addingState = InputIP,
                     !.textInput.value = m.currentServer.IP,
                     !.message = Text("Adding new server (Step 2 of 4):", <<>>)]
      [] m.addingState = InputIP ->
           [m EXCEPT !.currentServer.IP = m.textInput.value,
                     !.addingState = InputLocation,
                     !.textInput.value = m.currentServer.Location,
                     !.message = Text("Adding new server (Step 3 of 4):", <<>>)]
      [] m.addingState = InputLocation ->
           [m EXCEPT !.currentServer.Location = m.textInput.value,
                     !.addingState = InputStatus,
                     !.textInput.focus = FALSE,
                     !.message = Text("Adding new server (Step 4 of 4):", <<>>)]

\* commitStatus with a slip: the first item instead of the highlighted one
commitStatus_FirstItem(m) ==
    [m EXCEPT !.currentServer.Status = items[1],
              !.addingState = Confirm,
              !.message = Text("", <<>>)]

\* updateAddingEditing, case InputStatus, after enter
commitStatus(m) ==
    [m EXCEPT !.currentServer.Status = items[m.statusList + 1],
              !.addingState = Confirm,
              !.message = Text("", <<>>)]

\* confirmStep with a slip: n and N listed in the case of y
confirmStep_NSubmits(msg, m) ==
    IF msg.type = "KeyMsg" /\ msg.key \in {"y", "Y", "n", "N"}
    THEN Result(setTempMessage([m EXCEPT !.state = "Viewing",
                                         !.loading = TRUE,
                                         !.table.focus = TRUE],
                               "successStyle", Text("Submitting server data...", <<>>)),
                addOrEditServer(m.currentServer))
    ELSE IF msg.type = "KeyMsg" /\ msg.key \in {"esc"}
    THEN Result(setTempMessage([m EXCEPT !.state = "Viewing", !.table.focus = TRUE],
                               "cancelStyle", Text("Cancelled.", <<>>)),
                Nil)
    ELSE Result(m, Nil)

\* updateAddingEditing, case Confirm
confirmStep(msg, m) ==
    IF msg.type = "KeyMsg" /\ msg.key \in {"y", "Y"}
    THEN Result(setTempMessage([m EXCEPT !.state = "Viewing",
                                         !.loading = TRUE,
                                         !.table.focus = TRUE],
                               "successStyle", Text("Submitting server data...", <<>>)),
                addOrEditServer(m.currentServer))
    ELSE IF msg.type = "KeyMsg" /\ msg.key \in {"n", "N", "esc"}
    THEN Result(setTempMessage([m EXCEPT !.state = "Viewing", !.table.focus = TRUE],
                               "cancelStyle", Text("Cancelled.", <<>>)),
                Nil)
    ELSE Result(m, Nil)

\* updateAddingEditing with a slip: the text steps commit on the down key too
updateAddingEditing_DownCommits(msg, m) ==
    IF msg.type = "KeyMsg" /\ msg.key = "esc"
    THEN Result(setTempMessage([m EXCEPT !.state = "Viewing",
                                         !.textInput.focus = FALSE,
                                         !.table.focus = TRUE],
                               "cancelStyle", Text("Cancelled.", <<>>)),
                Nil)
    ELSE CASE m.addingState \in {InputName, InputIP, InputLocation} ->
                LET m1 == [m EXCEPT !.textInput = textInputUpdate(m.textInput, msg)]
                IN IF msg.type = "KeyMsg" /\ msg.key \in {"enter", "down"}
                   THEN Result(commitText(m1), Blink)
                   ELSE Result(m1, Nil)
           [] m.addingState = InputStatus ->
                LET m1 == [m EXCEPT !.statusList = statusListUpdate(m.statusList, msg)]
                IN IF msg.type = "KeyMsg" /\ msg.key = "enter"
                   THEN Result(commitStatus(m1), statusListCmd(msg))
                   ELSE Result(m1, statusListCmd(msg))
           [] m.addingState = Confirm -> confirmStep(msg, m)

\* updateAddingEditing
updateAddingEditing(msg, m) ==
    IF msg.type = "KeyMsg" /\ msg.key = "esc"
    THEN Result(setTempMessage([m EXCEPT !.state = "Viewing",
                                         !.textInput.focus = FALSE,
                                         !.table.focus = TRUE],
                               "cancelStyle", Text("Cancelled.", <<>>)),
                Nil)
    ELSE CASE m.addingState \in {InputName, InputIP, InputLocation} ->
                LET m1 == [m EXCEPT !.textInput = textInputUpdate(m.textInput, msg)]
                IN IF msg.type = "KeyMsg" /\ msg.key = "enter"
                   THEN Result(commitText(m1), Blink)
                   ELSE Result(m1, Nil)
           [] m.addingState = InputStatus ->
                LET m1 == [m EXCEPT !.statusList = statusListUpdate(m.statusList, msg)]
                IN IF msg.type = "KeyMsg" /\ msg.key = "enter"
                   THEN Result(commitStatus(m1), statusListCmd(msg))
                   ELSE Result(m1, statusListCmd(msg))
           [] m.addingState = Confirm -> confirmStep(msg, m)

\* updateDeleting with a slip: n listed in the case of y
updateDeleting_NDeletes(msg, m) ==
    IF msg.type = "KeyMsg" /\ msg.key \in {"y", "Y", "n"}
    THEN Result(setTempMessage([m EXCEPT !.state = "Viewing",
                                         !.loading = TRUE,
                                         !.table.focus = TRUE],
                               "successStyle", Text("Deleting server '%s'...", m.deleteTarget)),
                deleteServer(m.deleteTarget))
    ELSE IF msg.type = "KeyMsg" /\ msg.key \in {"N", "esc"}
    THEN Result(setTempMessage([m EXCEPT !.state = "Viewing", !.table.focus = TRUE],
                               "cancelStyle", Text("Deletion cancelled.", <<>>)),
                Nil)
    ELSE Result(m, Nil)

\* updateDeleting
updateDeleting(msg, m) ==
    IF msg.type = "KeyMsg" /\ msg.key \in {"y", "Y"}
    THEN Result(setTempMessage([m EXCEPT !.state = "Viewing",
                                         !.loading = TRUE,
                                         !.table.focus = TRUE],
                               "successStyle", Text("Deleting server '%s'...", m.deleteTarget)),
                deleteServer(m.deleteTarget))
    ELSE IF msg.type = "KeyMsg" /\ msg.key \in {"n", "N", "esc"}
    THEN Result(setTempMessage([m EXCEPT !.state = "Viewing", !.table.focus = TRUE],
                               "cancelStyle", Text("Deletion cancelled.", <<>>)),
                Nil)
    ELSE Result(m, Nil)

\* updateHelp with a slip: q and ctrl+c quit as they do in Viewing
updateHelp_QQuits(msg, m) ==
    IF msg.type = "KeyMsg"
    THEN IF msg.key \in {"ctrl+c", "q"}
         THEN Result(m, Quit)
         ELSE Result([m EXCEPT !.state = "Viewing"], Nil)
    ELSE Result(m, Nil)

\* updateHelp
updateHelp(msg, m) ==
    IF msg.type = "KeyMsg" THEN Result([m EXCEPT !.state = "Viewing"], Nil) ELSE Result(m, Nil)

\* the timer after messageTimer.Stop(): a timer that has not fired never will
Stop(timer) == IF timer.status = "armed" THEN [NoTimer EXCEPT !.status = "stopped"] ELSE timer

\* Update with errMsg intercepted before the dispatch on the mode: the session
\* is put into Viewing and the error handled there
Update_ErrorsAnywhere(msg, m, clamps) ==
    IF msg.type = "WindowSizeMsg"
    THEN Result(m, Nil)
    ELSE LET m1 == IF msg.type = "KeyMsg"
                   THEN [m EXCEPT !.messageTimer = Stop(m.messageTimer)]
                   ELSE m
         IN CASE m1.state = "Viewing" \/ msg.type = "errMsg" ->
                   updateViewing(msg, [m1 EXCEPT !.state = "Viewing"], clamps)
              [] m1.state \in {"Adding", "Editing"} -> updateAddingEditing(msg, m1)
              [] m1.state = "Deleting" -> updateDeleting(msg, m1)
              [] m1.state = "Help" -> updateHelp(msg, m1)

\* Update with a slip: a resize stops the message timer as a key press does
Update_ResizeStopsTimer(msg, m, clamps) ==
    LET m1 == IF msg.type \in {"KeyMsg", "WindowSizeMsg"}
              THEN [m EXCEPT !.messageTimer = Stop(m.messageTimer)]
              ELSE m
    IN IF msg.type = "WindowSizeMsg"
       THEN Result(m1, Nil)
       ELSE CASE m1.state = "Viewing" -> updateViewing(msg, m1, clamps)
              [] m1.state \in {"Adding", "Editing"} -> updateAddingEditing(msg, m1)
              [] m1.state = "Deleting" -> updateDeleting(msg, m1)
              [] m1.state = "Help" -> updateHelp(msg, m1)

\* Update with a slip: a key press leaves the message timer running
Update_KeysKeepTimer(msg, m, clamps) ==
    IF msg.type = "WindowSizeMsg"
    THEN Result(m, Nil)
    ELSE CASE m.state = "Viewing" -> updateViewing(msg, m, clamps)
           [] m.state \in {"Adding", "Editing"} -> updateAddingEditing(msg, m)
           [] m.state = "Deleting" -> updateDeleting(msg, m)
           [] m.state = "Help" -> updateHelp(msg, m)

\* model.Update
Update(msg, m, clamps) ==
    IF msg.type = "WindowSizeMsg"
    THEN Result(m, Nil)
    ELSE LET m1 == IF msg.type = "KeyMsg"
                   THEN [m EXCEPT !.messageTimer = Stop(m.messageTimer)]
                   ELSE m
         IN CASE m1.state = "Viewing" -> updateViewing(msg, m1, clamps)
              [] m1.state \in {"Adding", "Editing"} -> updateAddingEditing(msg, m1)
              [] m1.state = "Deleting" -> updateDeleting(msg, m1)
              [] m1.state = "Help" -> updateHelp(msg, m1)

(* ------------------------------- state --------------------------------- *)

VARIABLES
    m,          \* the model value the runtime holds
    cmd,        \* the command the last Update returned
    lastMsg,    \* the message the last step handed to Update (NoMsg: none)
    inflight,   \* commands the runtime is executing, each with the requests it has made
    clears,     \* fired timers whose p.Send(clearMessage{}) is not yet received
    pollPending,\* the tea.Tick of pollForUpdates has not fired yet
    quit,       \* tea.Quit was returned
    hist,       \* history of the current wizard run and of the last delivery
    keys        \* keys pressed so far

vars == <<m, cmd, lastMsg, inflight, clears, pollPending, quit, hist, keys>>

NoMsg == Msg("none", "", <<>>, "")

InWizard(mm) == mm.state \in {"Adding", "Editing"}

\* main: the model literal and table.Focus
InitialModel ==
    [servers |-> <<>>,
     err |-> "",
     loading |-> TRUE,
     message |-> Text("Initializing...", <<>>),
     state |-> "Viewing",
     addingState |-> InputName,
     table |-> [rows |-> <<>>, cursor |-> 0, focus |-> TRUE],
     textInput |-> [value |-> <<>>, focus |-> FALSE],
     statusList |-> 0,
     currentServer |-> EmptyServer,
     deleteTarget |-> <<>>,
     currentMsgStyle |-> "messageStyle",
     messageTimer |-> NoTimer]

\* a command as the runtime runs it: the requests its goroutine has made so far
Running(c) ==
    [cmd |-> c,
     calls |-> CASE c.kind = "fetchServers" -> <<"GET /inventory">>
                 [] c.kind = "addOrEditServer" -> <<"POST /report">>
                 [] c.kind = "deleteServer" -> <<"DELETE /delete">>]

IsNetwork(c) == c.kind \in {"fetchServers", "addOrEditServer", "deleteServer"}

NoRun == [cmd |-> Nil, calls |-> <<>>]

NoClear == Text("", <<>>)

\* model.Init: tea.Batch(fetchServers, pollForUpdates(30s))
Init ==
    /\ \E clamps \in BOOLEAN : m = updateTable(InitialModel, clamps)
    /\ cmd = Nil
    /\ lastMsg = NoMsg
    /\ inflight = <<Running(fetchServers)>>
    /\ clears = <<>>
    /\ pollPending = TRUE
    /\ quit = FALSE
    /\ hist = [wizServers |-> <<>>, committed |-> <<>>, submitted |-> FALSE,
               clearFor |-> Text("", <<>>), done |-> NoRun]
    /\ keys = 0

RemoveAt(s, i) == SubSeq(s, 1, i - 1) \o SubSeq(s, i + 1, Len(s))

\* what the history records when Update handles msg in model mm with result r
NextHist(msg, mm, r, clearFor, done) ==
    LET opened == mm.state = "Viewing" /\ InWizard(r.m)
        commits == InWizard(mm) /\ msg.type = "KeyMsg" /\ msg.key = "enter"
                   /\ mm.addingState < Confirm
        value == IF mm.addingState = InputStatus
                 THEN items[statusListUpdate(mm.statusList, msg) + 1]
                 ELSE mm.textInput.value
    IN [wizServers |-> IF InWizard(r.m) THEN (IF opened THEN r.m.servers ELSE hist.wizServers)
                       ELSE <<>>,
        committed |-> IF ~InWizard(r.m) \/ opened THEN <<>>
                      ELSE IF commits THEN Append(hist.committed, <<mm.addingState, value>>)
                      ELSE hist.committed,
        submitted |-> InWizard(r.m) /\ ~opened
                      /\ (hist.submitted \/ r.cmd.kind = "addOrEditServer"),
        clearFor |-> clearFor,
        done |-> done]

\* the runtime hands msg to Update, keeps the model and starts the command
Deliver(msg, rest, clearFor, done) ==
    \E clamps \in BOOLEAN :
    LET r == Update(msg, m, clamps)
    IN /\ IsNetwork(r.cmd) => Len(rest) < MaxInflight
       /\ m' = r.m
       /\ cmd' = r.cmd
       /\ lastMsg' = msg
       /\ inflight' = IF IsNetwork(r.cmd) THEN Append(rest, Running(r.cmd)) ELSE rest
       /\ quit' = (r.cmd.kind = "quit")
       /\ hist' = NextHist(msg, m, r, clearFor, done)

\* The keys pressed in a mode: those its handler (or the component it forwards
\* to) names, and "n" or "q" for those it does not name. At a text step every
\* rune is typed, and the user types those of TypedRunes while the value is
\* shorter than MaxLen.
Pressed(mm) ==
    CASE mm.state = "Viewing" -> {"ctrl+c", "q", "r", "a", "d", "e", "?", "down", "n"}
      [] InWizard(mm) /\ mm.addingState < InputStatus ->
           {"esc", "enter", "down"}
               \cup (IF Len(mm.textInput.value) < MaxLen THEN TypedRunes ELSE {})
      [] InWizard(mm) /\ mm.addingState = InputStatus ->
           {"esc", "enter", "down", "q", "n"}
      [] InWizard(mm) /\ mm.addingState = Confirm -> {"y", "Y", "n", "N", "esc", "q"}
      [] mm.state = "Deleting" -> {"y", "Y", "n", "N", "esc", "q"}
      [] mm.state = "Help" -> {"ctrl+c", "q", "n"}

KeyPress ==
    /\ ~quit
    /\ keys < MaxKeys
    /\ keys' = keys + 1
    /\ \E k \in Pressed(m) :
          /\ Deliver(KeyMsg(k), inflight, NoClear, NoRun)
    /\ UNCHANGED <<clears, pollPending>>

\* A session that is all about the wizard: in the main view the user moves the
\* cursor and opens the wizard, inside it presses what Pressed says.
PressedWizard(mm) == IF mm.state = "Viewing" THEN {"a", "e", "down"} ELSE Pressed(mm)

KeyPressWizard ==
    /\ ~quit
    /\ \E k \in PressedWizard(m) :
          /\ keys < WizardKeys
          /\ keys' = keys + 1
          /\ Deliver(KeyMsg(k), inflight, NoClear, NoRun)
    /\ UNCHANGED <<clears, pollPending>>

Resize ==
    /\ ~quit
    /\ Deliver(WindowSizeMsg, inflight, NoClear, NoRun)
    /\ UNCHANGED <<clears, pollPending, keys>>

\* fetchServers (alone, or as the tail of addOrEditServer and deleteServer) returns
FetchReturns ==
    /\ ~quit
    /\ \E i \in 1..Len(inflight) :
          /\ inflight[i].calls[Len(inflight[i].calls)] = "GET /inventory"
          /\ \E msg \in {serverMsg(l) : l \in FetchLists} \cup {errMsg(e) : e \in ErrTexts} :
                Deliver(msg, RemoveAt(inflight, i), NoClear, inflight[i])
    /\ UNCHANGED <<clears, pollPending, keys>>

\* addOrEditServer or deleteServer: the request fails or the status is not 200
CallFails ==
    /\ ~quit
    /\ \E i \in 1..Len(inflight) :
          /\ inflight[i].calls[Len(inflight[i].calls)] # "GET /inventory"
          /\ \E e \in ErrTexts :
                Deliver(errMsg(e), RemoveAt(inflight, i), NoClear, inflight[i])
    /\ UNCHANGED <<clears, pollPending, keys>>

\* addOrEditServer or deleteServer: status 200, the goroutine goes on to fetchServers()()
CallSucceeds ==
    /\ ~quit
    /\ \E i \in 1..Len(inflight) :
          /\ inflight[i].calls[Len(inflight[i].calls)] # "GET /inventory"
          /\ inflight' = [inflight EXCEPT ![i].calls = Append(@, "GET /inventory")]
    /\ lastMsg' = NoMsg
    /\ UNCHANGED <<m, cmd, clears, pollPending, quit, hist, keys>>

\* the 2 s of time.AfterFunc pass: the timer's goroutine blocks in p.Send. The
\* event loop never blocks, so the send of a timer that fired 2 s earlier has
\* been received by then.
TimerFires ==
    /\ ~quit
    /\ m.messageTimer.status = "armed"
    /\ clears = <<>>
    /\ m' = [m EXCEPT !.messageTimer = [NoTimer EXCEPT !.status = "fired"]]
    /\ clears' = Append(clears, m.messageTimer.forMsg)
    /\ lastMsg' = NoMsg
    /\ UNCHANGED <<cmd, inflight, pollPending, quit, hist, keys>>

\* the event loop receives a clearMessage
ClearArrives ==
    /\ ~quit
    /\ \E i \in 1..Len(clears) :
          /\ Deliver(clearMessage, inflight, clears[i], NoRun)
          /\ clears' = RemoveAt(clears, i)
    /\ UNCHANGED <<pollPending, keys>>

\* the 30 s of tea.Tick pass: the event loop receives fetchServersMsg
PollTick ==
    /\ ~quit
    /\ pollPending
    /\ Deliver(fetchServersMsg, inflight, NoClear, NoRun)
    /\ pollPending' = (cmd'.kind = "pollForUpdates")
    /\ UNCHANGED <<clears, keys>>

Next ==
    \/ KeyPress
    \/ Resize
    \/ FetchReturns
    \/ CallFails
    \/ CallSucceeds
    \/ TimerFires
    \/ ClearArrives
    \/ PollTick

Spec == Init /\ [][Next]_vars

NextWizard ==
    \/ KeyPressWizard
    \/ FetchReturns
    \/ CallFails
    \/ CallSucceeds
    \/ TimerFires
    \/ ClearArrives
    \/ PollTick

SpecWizard == Init /\ [][NextWizard]_vars

\* A session that walks through the wizard: the user opens it, steps through
\* it without typing, and resizes the terminal now and then.
PressedSteps(mm) ==
    CASE mm.state = "Viewing" -> {"a", "e"}
      [] InWizard(mm) /\ mm.addingState < InputStatus -> {"esc", "enter", "down"}
      [] OTHER -> Pressed(mm)

KeyPressSteps ==
    /\ ~quit
    /\ \E k \in PressedSteps(m) :
          /\ keys < WizardKeys
          /\ keys' = keys + 1
          /\ Deliver(KeyMsg(k), inflight, NoClear, NoRun)
    /\ UNCHANGED <<clears, pollPending>>

NextSteps ==
    \/ KeyPressSteps
    \/ Resize
    \/ FetchReturns
    \/ CallFails
    \/ CallSucceeds
    \/ TimerFires
    \/ ClearArrives
    \/ PollTick

SpecSteps == Init /\ [][NextSteps]_vars

\* A session of typing: the user opens the wizard once the list is there or
\* before, types letters and spaces into the text field (one character more
\* than MaxLen, so that a value can have a space beside a letter) and commits
\* them.
PressedTyping(mm) ==
    CASE mm.state = "Viewing" -> {"a", "e", "down"}
      [] InWizard(mm) /\ mm.addingState < InputStatus ->
           {"esc", "enter"}
               \cup (IF Len(mm.textInput.value) < MaxLen + 1 THEN TypedRunes \cup {" "} ELSE {})
      [] OTHER -> {"esc"}

KeyPressTyping ==
    /\ ~quit
    /\ \E k \in PressedTyping(m) :
          /\ keys < WizardKeys
          /\ keys' = keys + 1
          /\ Deliver(KeyMsg(k), inflight, NoClear, NoRun)
    /\ UNCHANGED <<clears, pollPending>>

NextTyping ==
    \/ KeyPressTyping
    \/ FetchReturns

SpecTyping == Init /\ [][NextTyping]_vars

\* Statuses of the entries the projection is checked on: the three of the
\* status list and one that differs from "Online" by a space at its end.
ProjectStatuses == {Online, Offline, Maintenance, Online \o <<" ">>}

ProjectLists ==
    UNION {[1..n -> {[ServerA EXCEPT !.Status = st] : st \in ProjectStatuses}] : n \in 0..MaxRows}

\* A session on lists of entries of every status: the user refreshes and moves
\* the cursor, and GET /inventory answers with any list of ProjectLists.
KeyPressProject ==
    /\ ~quit
    /\ \E k \in {"r", "down"} :
          /\ keys < MaxKeys
          /\ keys' = keys + 1
          /\ Deliver(KeyMsg(k), inflight, NoClear, NoRun)
    /\ UNCHANGED <<clears, pollPending>>

FetchProject ==
    /\ ~quit
    /\ \E i \in 1..Len(inflight) :
          /\ inflight[i].calls[Len(inflight[i].calls)] = "GET /inventory"
          /\ \E l \in ProjectLists :
                Deliver(serverMsg(l), RemoveAt(inflight, i), NoClear, inflight[i])
    /\ UNCHANGED <<clears, pollPending, keys>>

NextProject ==
    \/ KeyPressProject
    \/ FetchProject

SpecProject == Init /\ [][NextProject]_vars

TypeOK ==
    /\ m.state \in {"Viewing", "Adding", "Editing", "Deleting", "Help"}
    /\ m.addingState \in InputName..Confirm
    /\ m.loading \in BOOLEAN
    /\ Len(inflight) <= MaxInflight
    /\ Len(clears) <= 1

(* ------------------------------- claims -------------------------------- *)

\* the step hands a key to Update
KeyStep(ks) == lastMsg'.type = "KeyMsg" /\ lastMsg'.key \in ks

\* the fields the history has as committed, in the order of their commits
CommittedSteps == [i \in 1..Len(hist.committed) |-> hist.committed[i][1]]

AllCommitted == CommittedSteps = <<InputName, InputIP, InputLocation, InputStatus>>

AtConfirm(mm) == InWizard(mm) /\ mm.addingState = Confirm

\* the step cancels the wizard: escape at any step, n or N at Confirm
CancelStep ==
    /\ InWizard(m)
    /\ \/ KeyStep({"esc"})
       \/ m.addingState = Confirm /\ KeyStep({"n", "N"})

\* C1: cancelling the wizard, after any commits, leaves the session in Viewing
\* with the entry list it had when the wizard was opened, and neither the
\* cancelling step nor any step of the run before it has emitted a
\* create-or-update command.
C1_CancelRestores ==
    [][CancelStep =>
          /\ m'.state = "Viewing"
          /\ m'.servers = hist.wizServers
          /\ ~hist.submitted
          /\ cmd'.kind # "addOrEditServer"
          /\ inflight' = inflight]_vars

C1_Witness ==
    /\ lastMsg = KeyMsg("n")
    /\ m.state = "Viewing"
    /\ m.addingState = Confirm
    /\ m.message = Text("Cancelled.", <<>>)
    /\ m.currentServer.Name # <<>>
    /\ m.servers # <<>>

\* C2: the wizard is at Confirm only after the four fields were committed in
\* this run in the order Name, Address, Location, Status, and Update returns a
\* create-or-update command only for y or Y at Confirm.
C2_ConfirmAfterAllFields ==
    [][/\ AtConfirm(m') => AllCommitted'
       /\ (lastMsg'.type # "none" /\ cmd'.kind = "addOrEditServer") =>
             /\ AtConfirm(m)
             /\ AllCommitted
             /\ KeyStep({"y", "Y"})]_vars

C2_Witness ==
    /\ lastMsg = KeyMsg("y")
    /\ cmd.kind = "addOrEditServer"
    /\ m.state = "Viewing"

\* C3: after a successful fetch result is processed, in any mode, the entry
\* list is the fetched list and loading is false.
C3_FetchReplaces ==
    lastMsg.type = "serverMsg" => (m.servers = lastMsg.servers /\ ~m.loading)

\* C4: while the wizard is open, a fetch result or the periodic timer event
\* leaves the mode, the step, the working entry and the field being edited
\* unchanged.
C4_WizardUntouched ==
    [][(InWizard(m) /\ lastMsg'.type \in {"serverMsg", "errMsg", "fetchServersMsg"}) =>
          /\ m'.state = m.state
          /\ m'.addingState = m.addingState
          /\ m'.currentServer = m.currentServer
          /\ m'.textInput = m.textInput
          /\ m'.statusList = m.statusList]_vars

C4_Witness ==
    /\ lastMsg.type = "serverMsg"
    /\ lastMsg.servers # <<>>
    /\ InWizard(m)
    /\ m.addingState = InputIP
    /\ m.currentServer.Name # <<>>

\* C5: in every state of a session that has not terminated a periodic timer is
\* pending, and processing the timer event returns a fetch command.
C5_PollRearmed ==
    /\ ~quit => pollPending
    /\ lastMsg.type = "fetchServersMsg" => cmd.kind = "fetchServers"

\* C6: when the expiry event of a message is processed and no other message
\* was installed since, the message is cleared.
C6_ExpiryClears ==
    (lastMsg.type = "clearMessage" /\ hist.clearFor = m.message) => m.message.text = ""

\* C7: installing a message cancels the expiry timer of the message it
\* supersedes: a timer that is armed belongs to the message on display.
C7_SupersedeCancels ==
    m.messageTimer.status = "armed" => m.messageTimer.forMsg = m.message

\* C8: after a failure result is processed the session is in Viewing and not
\* terminated, loading is false, the message is the failure's text in the
\* error style, and the entry list is the one from before.
C8_FailureHandled ==
    [][lastMsg'.type = "errMsg" =>
          /\ m'.state = "Viewing"
          /\ ~quit'
          /\ ~m'.loading
          /\ m'.message = Text(lastMsg'.err, <<>>)
          /\ m'.currentMsgStyle = "cancelStyle"
          /\ m'.currentMsgStyle # "successStyle"
          /\ m'.servers = m.servers]_vars

\* the value the history has as committed at step st
CommittedAt(st) == hist.committed[st + 1][2]

Post == <<"POST /report">>

PostThenList == <<"POST /report", "GET /inventory">>

\* C9: y or Y at Confirm returns one create-or-update command with the values
\* committed at the four steps, goes to Viewing and sets loading, and the
\* runtime starts that one command; the command makes its list call after, and
\* only after, its POST succeeded, and the list call's result is what arrives.
C9_SubmitOnceThenList ==
    [][/\ (AtConfirm(m) /\ KeyStep({"y", "Y"})) =>
             /\ cmd'.kind = "addOrEditServer"
             /\ cmd'.server.Name = CommittedAt(InputName)
             /\ cmd'.server.IP = CommittedAt(InputIP)
             /\ cmd'.server.Location = CommittedAt(InputLocation)
             /\ cmd'.server.Status = CommittedAt(InputStatus)
             /\ m'.state = "Viewing"
             /\ m'.loading
             /\ inflight' = Append(inflight, [cmd |-> cmd', calls |-> Post])
       /\ \A i \in 1..Len(inflight') :
             inflight'[i].cmd.kind = "addOrEditServer" =>
                 inflight'[i].calls \in {Post, PostThenList}
       /\ (lastMsg'.type # "none" /\ hist'.done.cmd.kind = "addOrEditServer") =>
             /\ hist'.done.calls \in {Post, PostThenList}
             /\ hist'.done.calls = Post => lastMsg'.type = "errMsg"
             /\ lastMsg'.type = "serverMsg" => hist'.done.calls = PostThenList]_vars

C9_Witness ==
    /\ lastMsg.type = "serverMsg"
    /\ hist.done.cmd.kind = "addOrEditServer"
    /\ hist.done.calls = PostThenList
    /\ hist.done.cmd.server.Name # <<>>
    /\ hist.done.cmd.server.Status = Offline

\* C10: n, N or escape in the delete confirmation returns to Viewing with the
\* message "Deletion cancelled.", returns no command, starts none, and leaves
\* the entry list and loading as they were.
C10_DeleteCancelled ==
    [][(m.state = "Deleting" /\ KeyStep({"n", "N", "esc"})) =>
          /\ m'.state = "Viewing"
          /\ m'.message = Text("Deletion cancelled.", <<>>)
          /\ cmd' = Nil
          /\ inflight' = inflight
          /\ m'.servers = m.servers
          /\ m'.loading = m.loading]_vars

C10_Witness ==
    /\ lastMsg = KeyMsg("N")
    /\ m.state = "Viewing"
    /\ m.message = Text("Deletion cancelled.", <<>>)
    /\ m.deleteTarget # <<>>

\* the message on display is the text of a failed call, in the error style
ErrorShown(mm) ==
    /\ mm.err # ""
    /\ mm.message = Text(mm.err, <<>>)
    /\ mm.currentMsgStyle = "cancelStyle"

\* C11: while the message of a failed call is on display, the processing of a
\* message-expiry event changes neither its text nor its style.
C11_ErrorPersists ==
    [][(ErrorShown(m) /\ lastMsg'.type = "clearMessage") =>
          /\ m'.message = m.message
          /\ m'.currentMsgStyle = m.currentMsgStyle]_vars

\* the cursor of the table is on a row of a list that has entries
RowSelected(mm) ==
    /\ Len(mm.servers) > 0
    /\ mm.table.cursor \in 0..(Len(mm.table.rows) - 1)

\* the name in the row under the cursor
SelectedName(mm) == mm.table.rows[mm.table.cursor + 1][1]

\* C12: a delete command is returned only for y or Y in the delete
\* confirmation and names the delete target; d in Viewing enters the delete
\* confirmation with the name of the row under the cursor as the target when a
\* row is selected and stays in Viewing otherwise; nothing else enters it, the
\* target does not change while it is open, and a key other than y, Y, n, N
\* and escape leaves the mode as it is, returns no command and starts none.
C12_DeleteTargetsSelected ==
    [][/\ (lastMsg'.type # "none" /\ cmd'.kind = "deleteServer") =>
             /\ m.state = "Deleting"
             /\ KeyStep({"y", "Y"})
             /\ cmd'.name = m.deleteTarget
             /\ inflight' = Append(inflight, [cmd |-> cmd', calls |-> <<"DELETE /delete">>])
       /\ (m.state = "Viewing" /\ KeyStep({"d"})) =>
             IF RowSelected(m)
             THEN m'.state = "Deleting" /\ m'.deleteTarget = SelectedName(m)
             ELSE m'.state = "Viewing"
       /\ (m.state # "Deleting" /\ m'.state = "Deleting") =>
             (m.state = "Viewing" /\ KeyStep({"d"}))
       /\ (m.state = "Deleting" /\ m'.state = "Deleting") => m'.deleteTarget = m.deleteTarget
       /\ (m.state = "Deleting" /\ KeyStep(Keys \ {"y", "Y", "n", "N", "esc"})) =>
             /\ m'.state = "Deleting"
             /\ m'.deleteTarget = m.deleteTarget
             /\ cmd' = Nil
             /\ inflight' = inflight]_vars

C12_Witness ==
    /\ lastMsg = KeyMsg("y")
    /\ cmd = deleteServer(ServerA.Name)
    /\ m.state = "Viewing"
    /\ m.table.cursor = 1

\* the entry of the list under the cursor
SelectedEntry(mm) == mm.servers[mm.table.cursor + 1]

\* C13: a in Viewing opens the wizard at the Name step with an empty working
\* entry and an empty text field; e opens it at the Name step with a copy of
\* the entry under the cursor when a row is selected and leaves the mode as it
\* is otherwise; neither these keys nor any key inside the wizard changes the
\* entry list.
C13_WizardEntryFresh ==
    [][/\ (m.state = "Viewing" /\ KeyStep({"a"})) =>
             /\ m'.state = "Adding"
             /\ m'.addingState = InputName
             /\ m'.currentServer = EmptyServer
             /\ m'.textInput.value = <<>>
             /\ m'.servers = m.servers
       /\ (m.state = "Viewing" /\ KeyStep({"e"})) =>
             /\ m'.servers = m.servers
             /\ IF RowSelected(m)
                THEN /\ m'.state = "Editing"
                     /\ m'.addingState = InputName
                     /\ m'.currentServer = SelectedEntry(m)
                ELSE m'.state = "Viewing"
       /\ (InWizard(m) /\ lastMsg'.type = "KeyMsg") => m'.servers = m.servers]_vars

\* C14: from one state of a wizard run to the next the step stays or goes one
\* step forward in the order Name, Address, Location, Status, Confirm, and it
\* goes forward only when enter is processed; escape at any step leaves the
\* wizard for Viewing.
C14_StepsForwardOnEnter ==
    [][/\ (InWizard(m) /\ InWizard(m')) =>
             /\ m'.addingState \in {m.addingState, m.addingState + 1}
             /\ m'.addingState <= Confirm
             /\ m'.addingState # m.addingState => KeyStep({"enter"})
       /\ (InWizard(m) /\ KeyStep({"esc"})) => m'.state = "Viewing"]_vars

C14_Witness ==
    /\ lastMsg = KeyMsg("enter")
    /\ AtConfirm(m)
    /\ AllCommitted

\* the step hands Update a key for which the handler of the mode calls
\* setTempMessage
MessageKeyStep ==
    \/ InWizard(m) /\ KeyStep({"esc"})
    \/ AtConfirm(m) /\ KeyStep({"y", "Y", "n", "N"})
    \/ m.state = "Deleting" /\ KeyStep({"y", "Y", "n", "N", "esc"})

C16_ResizeFrame ==
    [][lastMsg'.type = "WindowSizeMsg" =>
          /\ m'.state = m.state
          /\ m'.addingState = m.addingState
          /\ m'.currentServer = m.currentServer
          /\ m'.deleteTarget = m.deleteTarget
          /\ m'.servers = m.servers
          /\ m'.loading = m.loading
          /\ m'.message = m.message
          /\ m'.currentMsgStyle = m.currentMsgStyle
          /\ m'.messageTimer = m.messageTimer
          /\ cmd' = Nil
          /\ inflight' = inflight
          /\ clears' = clears
          /\ pollPending' = pollPending
          /\ ~quit']_vars

C16_Witness ==
    /\ lastMsg = WindowSizeMsg
    /\ m.messageTimer.status = "armed"
    /\ m.message = Text("Cancelled.", <<>>)
    /\ m.loading

\* what Update makes of the key r in the model mm
ManualRefresh(mm) == Update(KeyMsg("r"), mm, TRUE)

\* C17: in Viewing, processing the poll timer's event gives the loading flag
\* and the command that processing the key r in the same state gives: loading
\* set and one fetch.
C17_TickRefreshesAsR ==
    [][(m.state = "Viewing" /\ lastMsg'.type = "fetchServersMsg") =>
          /\ cmd' = ManualRefresh(m).cmd
          /\ cmd' = fetchServers
          /\ m'.loading = ManualRefresh(m).m.loading
          /\ m'.loading]_vars

\* C18: ? in Viewing opens Help and any key in Help, q and ctrl+c included,
\* goes back to Viewing; neither ends the session, returns a command or starts
\* one, and both leave the entry list, the loading flag and the message text
\* as they were.
C18_HelpAnyKeyReturns ==
    [][((m.state = "Viewing" /\ KeyStep({"?"})) \/ (m.state = "Help" /\ KeyStep(Keys))) =>
          /\ m'.state = (IF m.state = "Help" THEN "Viewing" ELSE "Help")
          /\ ~quit'
          /\ cmd' = Nil
          /\ inflight' = inflight
          /\ m'.servers = m.servers
          /\ m'.loading = m.loading
          /\ m'.message = m.message]_vars

C18_Witness ==
    /\ lastMsg = KeyMsg("q")
    /\ m.state = "Viewing"
    /\ ~quit
    /\ m.servers # <<>>
    /\ keys = 2

\* the field of an entry that a text step of the wizard edits
Field(server, st) ==
    CASE st = InputName -> server.Name
      [] st = InputIP -> server.IP
      [] st = InputLocation -> server.Location

\* enter at a text step leaves the text field with the value the working entry
\* had for the next field: that of the entry under the cursor when editing,
\* nothing when adding
SeedsNext ==
    (m.addingState < InputLocation) =>
        /\ m'.textInput.value = Field(m.currentServer, m.addingState + 1)
        /\ m.state = "Editing" => m'.textInput.value = Field(SelectedEntry(m), m.addingState + 1)
        /\ m.state = "Adding" => m'.textInput.value = <<>>

\* C19: enter at the Name, Address or Location step puts the value of the
\* text field, with the whitespace at its ends removed, into that field of the
\* working entry, and seeds the text field for the next step.
C19_CommitTrimsAndSeeds ==
    [][(InWizard(m) /\ m.addingState < InputStatus /\ KeyStep({"enter"})) =>
          /\ Field(m'.currentServer, m.addingState) = TrimSpace(m.textInput.value)
          /\ SeedsNext]_vars

\* the row of the table is the projection of the entry: its fields in the
\* order of the columns, the status followed by nothing but padding
RowOf(row, server) ==
    /\ Len(row) = 5
    /\ row[1] = server.Name
    /\ row[2] = server.IP
    /\ row[3] = server.Location
    /\ Len(row[4]) >= Len(server.Status)
    /\ SubSeq(row[4], 1, Len(server.Status)) = server.Status
    /\ \A k \in (Len(server.Status) + 1)..Len(row[4]) : row[4][k] = " "
    /\ row[5] = server.LastReport

C21_LoadingHasCause ==
    m.loading => inflight # <<>>

====
